---- MODULE Spec2Model ----
(***************************************************************************)
(* A model of src/src/objective.py: the ObjectiveTest class that turns a   *)
(* text corpus into fill-in-the-blank questions.  Texts are sequences of   *)
(* one-character strings, so that splitting, joining, substring tests and  *)
(* the case-insensitive substitution are computed, not assumed.            *)
(***************************************************************************)
EXTENDS Integers, Sequences, FiniteSets, TLC

VARIABLES
    corpus_file,      \* the text of the file at filepath, as read by the constructor
    summary,          \* self.summary
    wordnet,          \* the lexical database behind nltk.corpus.wordnet
    faulty,           \* the external service that raises, or "none"
    poison,           \* the sentence on which a faulty per-sentence service raises
    pc,               \* the position of the running call
    num_questions,    \* generate_test's argument
    sentences,        \* get_question_sets: the segmenter's result
    sent_idx,         \* get_question_sets: the loop's position in sentences
    question_sets,    \* get_question_sets: the records collected so far
    question_answers, \* generate_test: the records with Key > 3
    questions,        \* generate_test: the selected Question strings
    answers,          \* generate_test: the selected Answer strings
    rand_num,         \* generate_test: the last np.random.randint result
    sampled,          \* whether this call has drawn a random number
    error,            \* the exception that reached the caller, or "none"
    prev_sets,        \* what the previous call's get_question_sets returned
    recalled,         \* whether generate_test has been called a second time
    arg,              \* the argument of a method called on its own
    ret               \* and its result

vars == <<corpus_file, summary, wordnet, faulty, poison, pc, num_questions,
          sentences, sent_idx, question_sets, question_answers, questions,
          answers, rand_num, sampled, error, prev_sets, recalled, arg, ret>>

(***************************************************************************)
(* Bounds of the model.                                                    *)
(***************************************************************************)
MaxSentences == 2   \* sentences in a corpus
MaxQuestions == 2   \* largest num_questions asked for
MaxWords == 4       \* words of a sentence handed to identify_potential_questions
MaxHyponyms == 9    \* hyponyms of a hypernym in the lexical database

(***************************************************************************)
(* Program constants.                                                      *)
(***************************************************************************)
MinKey == 3         \* generate_test keeps a record when Key > 3
MinTokens == 4      \* identify_potential_questions rejects len(tokens) < 4
BlankWidth == 10    \* the blank marker is "__________"
MaxSimilar == 8     \* answer_options keeps [:8]
LastWords == 2      \* phrase.split()[-2:]

(***************************************************************************)
(* Text: Python's str operations on sequences of characters.               *)
(***************************************************************************)
Min(S) == CHOOSE x \in S : \A y \in S : x <= y
Max(S) == CHOOSE x \in S : \A y \in S : x >= y

IsSpace(c) == c = " "

\* str.lower() on the letters the model's texts use (re.IGNORECASE)
Lower(c) ==
    CASE c = "P" -> "p"
      [] c = "T" -> "t"
      [] c = "N" -> "n"
      [] c = "C" -> "c"
      [] OTHER -> c

LowerText(s) == [k \in 1..Len(s) |-> Lower(s[k])]

\* s.startswith(p)
StartsWith(s, p) == Len(p) <= Len(s) /\ SubSeq(s, 1, Len(p)) = p

\* the offsets (from 0) at which w occurs in s
Occurrences(w, s) == {k \in 0..(Len(s) - Len(w)) : SubSeq(s, k + 1, k + Len(w)) = w}

\* w in s
IsSubstring(w, s) == Occurrences(w, s) # {}

\* the k-th smallest element of a set of numbers
Nth(S, k) == CHOOSE p \in S : Cardinality({q \in S : q < p}) = k - 1

\* s.split(): the maximal runs of non-whitespace characters, in order
Split(s) ==
    LET starts == {p \in 1..Len(s) : ~IsSpace(s[p]) /\ (p = 1 \/ IsSpace(s[p - 1]))}
        EndOf(p) == Min({e \in p..Len(s) : e = Len(s) \/ IsSpace(s[e + 1])})
    IN [k \in 1..Cardinality(starts) |->
            LET p == Nth(starts, k) IN SubSeq(s, p, EndOf(p))]

RECURSIVE Join(_, _)
\* sep.join(ws)
Join(ws, sep) ==
    IF Len(ws) = 0 THEN <<>>
    ELSE IF Len(ws) = 1 THEN ws[1]
    ELSE ws[1] \o sep \o Join(Tail(ws), sep)

\* ws[-n:]
LastN(ws, n) == IF Len(ws) <= n THEN ws ELSE SubSeq(ws, Len(ws) - n + 1, Len(ws))

\* ws[:n]
FirstN(ws, n) == IF Len(ws) <= n THEN ws ELSE SubSeq(ws, 1, n)

\* "__________" * n
Blanks(n) == [k \in 1..(BlankWidth * n) |-> "_"]

\* re.compile(re.escape(phrase), re.IGNORECASE).sub(blanks, s, count=1):
\* the first case-insensitive literal occurrence of phrase is replaced
SubFirst(phrase, blanks, s) ==
    LET occ == Occurrences(LowerText(phrase), LowerText(s))
    IN IF occ = {} THEN s
       ELSE LET k == Min(occ)
            IN SubSeq(s, 1, k) \o blanks \o SubSeq(s, k + Len(phrase) + 1, Len(s))

\* str.replace("_", " ")
ReplaceUnderscores(s) == [k \in 1..Len(s) |-> IF s[k] = "_" THEN " " ELSE s[k]]

(***************************************************************************)
(* The external services, as deterministic functions of their input: the   *)
(* sentence segmenter, the Treebank word tokenizer, a lexicon tagger and   *)
(* the regular-expression chunk parser run on the grammar of the source.   *)
(***************************************************************************)
Services == {"sent_tokenize", "word_tokenize", "pos_tag", "parse",
             "synsets", "hypernyms", "hyponyms", "lemmas"}
SentenceServices == {"word_tokenize", "pos_tag", "parse"}

\* nltk.sent_tokenize: a sentence ends at a "." that whitespace or the end of
\* the text follows; sentences are stripped and an all-whitespace rest is dropped
sent_tokenize(text) ==
    LET n == Len(text)
        stops == {p \in 1..n : text[p] = "." /\ (p = n \/ IsSpace(text[p + 1]))}
        cuts == stops \cup (IF n > 0 /\ n \notin stops THEN {n} ELSE {})
        From(k) == IF k = 1 THEN 1 ELSE Nth(cuts, k - 1) + 1
        Piece(k) == SubSeq(text, From(k), Nth(cuts, k))
        Strip(t) ==
            LET ink == {p \in 1..Len(t) : ~IsSpace(t[p])}
            IN IF ink = {} THEN <<>> ELSE SubSeq(t, Min(ink), Max(ink))
        pieces == [k \in 1..Cardinality(cuts) |-> Strip(Piece(k))]
    IN SelectSeq(pieces, LAMBDA t : t # <<>>)

\* the grave accent, which a string of the module cannot hold, as a character
Grave == "grave"
\* the token of an opening double quote: two grave accents
OpenQuote == <<Grave, Grave>>
FullStop == <<".">>

RECURSIVE Flatten(_)
Flatten(seqs) == IF seqs = <<>> THEN <<>> ELSE Head(seqs) \o Flatten(Tail(seqs))

\* nltk.word_tokenize: whitespace-separated pieces; a double quote opening a
\* piece becomes the opening-quote token, and the full stop ending the text is a token
word_tokenize(sentence) ==
    LET pieces == Split(sentence)
        n == Len(pieces)
        Toks(k) ==
            LET p == pieces[k]
                quoted == p[1] = "\""
                rest == IF quoted THEN Tail(p) ELSE p
                m == Len(rest)
                body == IF m = 0 THEN <<>>
                        ELSE IF k = n /\ rest[m] = "." /\ m > 1
                             THEN <<SubSeq(rest, 1, m - 1), FullStop>>
                        ELSE <<rest>>
            IN (IF quoted THEN <<OpenQuote>> ELSE <<>>) \o body
    IN Flatten([k \in 1..n |-> Toks(k)])

\* the words of the model's texts
wParis == <<"P", "a", "r", "i", "s">>
wCity == <<"c", "i", "t", "y">>
wOf == <<"o", "f">>
wThe == <<"T", "h", "e">>
wIs == <<"i", "s">>
wNow == <<"N", "o", "w">>
wDogs == <<"d", "o", "g", "s">>
wNdrangheta == <<"'", "N", "d", "r", "a", "n", "g", "h", "e", "t", "a">>
wQuote == <<"\"">>

\* the tag the tagger gives a token
TagOf(tok) ==
    CASE tok = wParis -> "NNP"
      [] tok = wNdrangheta -> "NNP"
      [] tok = wCity -> "NN"
      [] tok = wDogs -> "NNS"
      [] tok = wOf -> "IN"
      [] tok = wThe -> "DT"
      [] tok = wIs -> "VBZ"
      [] tok = wNow -> "RB"
      [] tok = OpenQuote -> "OPENQUOTE"
      [] tok = FullStop -> "."
      [] OTHER -> "NN"

\* nltk.pos_tag: (word, tag) pairs in the tokens' order
pos_tag(tokens) == [k \in 1..Len(tokens) |-> <<tokens[k], TagOf(tokens[k])>>]

\* how many of the positions p..lim, from p on, carry a tag of S
RunLen(tg, S, p, lim) ==
    Max({e \in (p - 1)..lim : \A j \in p..e : tg[j] \in S}) - p + 1

\* The length of the greedy match, within p..lim, of a rule of the grammar
\*     CHUNK: {<NN>+<IN|DT>*<NN>+}
\*            {<NN>+<IN|DT>*<NNP>+}
\*            {<NNP>+<NNS>*}
\* and 0 when the rule does not match at p.
MatchLen(rule, tg, p, lim) ==
    LET m == RunLen(tg, IF rule = 3 THEN {"NNP"} ELSE {"NN"}, p, lim)
        k == RunLen(tg, {"IN", "DT"}, p + m, lim)
        n1 == RunLen(tg, {"NN"}, p + m + k, lim)
        n2 == RunLen(tg, {"NNP"}, p + m + k, lim)
        j == RunLen(tg, {"NNS"}, p + m, lim)
    IN CASE rule = 1 -> IF m >= 1 /\ k >= 1 /\ n1 >= 1 THEN m + k + n1
                        ELSE IF m >= 2 THEN m ELSE 0
         [] rule = 2 -> IF m >= 1 /\ n2 >= 1 THEN m + k + n2 ELSE 0
         [] rule = 3 -> IF m >= 1 THEN m + j ELSE 0

Covered(chunks, p) == \E c \in chunks : c[1] <= p /\ p <= c[2]

RECURSIVE ApplyRule(_, _, _, _)
\* one rule over the tokens not yet in a chunk, leftmost match first
ApplyRule(rule, tg, p, chunks) ==
    IF p > Len(tg) THEN chunks
    ELSE IF Covered(chunks, p) THEN ApplyRule(rule, tg, p + 1, chunks)
    ELSE LET lim == Max({e \in p..Len(tg) : \A q \in p..e : ~Covered(chunks, q)})
             len == MatchLen(rule, tg, p, lim)
         IN IF len = 0 THEN ApplyRule(rule, tg, p + 1, chunks)
            ELSE ApplyRule(rule, tg, p + len, chunks \cup {<<p, p + len - 1>>})

\* nltk.RegexpParser(grammar).parse(tags): the CHUNK spans, the three rules
\* applied in order
CHUNK(tags) ==
    LET tg == [k \in 1..Len(tags) |-> tags[k][2]]
    IN ApplyRule(3, tg, 1, ApplyRule(2, tg, 1, ApplyRule(1, tg, 1, {})))

\* the loop over tree.subtrees(): each chunk's words joined by a space, in
\* the order of the chunks in the sentence
noun_phrases(tags) ==
    LET chunks == CHUNK(tags)
        Phrase(c) == Join([k \in 1..(c[2] - c[1] + 1) |-> tags[c[1] + k - 1][1]], <<" ">>)
    IN [k \in 1..Cardinality(chunks) |->
            Phrase(CHOOSE c \in chunks : c[1] = Nth({d[1] : d \in chunks}, k))]

(***************************************************************************)
(* Failures of the external services.  A service raises on an input or it  *)
(* does not: the faulty service and its poison input are fixed at Init.    *)
(***************************************************************************)
\* a service called once per sentence raises on the poison sentence
Fails(svc, sentence) == faulty = svc /\ sentence = poison
\* a faulty service of the lexical database, or the segmenter, raises on every call
Down(svc) == faulty = svc

NoError == "none"
Returned(v) == [exc |-> NoError, val |-> v]
Raised(e) == [exc |-> e, val |-> <<>>]

(***************************************************************************)
(* ObjectiveTest.answer_options                                            *)
(***************************************************************************)
\* wn.synsets(word, pos="n")
Synsets(word) ==
    IF word \in DOMAIN wordnet.synsets THEN wordnet.synsets[word] ELSE <<>>

\* hyponym.lemmas()[0].name().replace("_", " ") over the hyponyms
LemmaNames(hyponyms) ==
    [k \in 1..Len(hyponyms) |-> ReplaceUnderscores(wordnet.lemmas[hyponyms[k]][1])]

\* the list comprehension and its [:8]
SimilarWordsBug(names, word) ==
    SelectSeq(FirstN(names, MaxSimilar), LAMBDA n : n # word)
similar_words(names, word) ==
    FirstN(SelectSeq(names, LAMBDA n : n # word), MaxSimilar)

answer_options(word) ==
    IF Down("synsets") THEN Returned(<<>>)
    ELSE IF Synsets(word) = <<>> THEN Returned(<<>>)
    ELSE IF Down("hypernyms") THEN Raised("hypernyms")
    ELSE LET hypernyms == wordnet.hypernyms[Synsets(word)[1]]
         IN IF hypernyms = <<>> THEN Returned(<<>>)
            ELSE IF Down("hyponyms") THEN Raised("hyponyms")
            ELSE IF Down("lemmas") /\ wordnet.hyponyms[hypernyms[1]] # <<>>
                 THEN Raised("lemmas")
            ELSE Returned(similar_words(LemmaNames(wordnet.hyponyms[hypernyms[1]]), word))

(***************************************************************************)
(* ObjectiveTest.identify_potential_questions                              *)
(***************************************************************************)
Apostrophe == <<"'">>

RECURSIVE ScanPhrases(_, _, _)
\* the inner loop over noun_phrases for one word: what it extends
\* replace_nouns by before it breaks or runs out
ScanPhrases(word, phrases, k) ==
    IF k > Len(phrases) THEN <<>>
    ELSE IF StartsWith(phrases[k], Apostrophe) THEN <<>>
    ELSE IF IsSubstring(word, phrases[k]) THEN LastN(Split(phrases[k]), LastWords)
    ELSE ScanPhrases(word, phrases, k + 1)

RECURSIVE ScanAllTokens(_, _, _, _)
\* the "Handle nouns" loop without its closing break
ScanAllTokens(tags, phrases, k, acc) ==
    IF k > Len(tags) THEN acc
    ELSE LET found == acc \o ScanPhrases(tags[k][1], phrases, 1)
         IN ScanAllTokens(tags, phrases, k + 1,
                          IF found = <<>> THEN <<tags[k][1]>> ELSE found)
ReplaceNounsAllTokens(tags, phrases) == ScanAllTokens(tags, phrases, 1, <<>>)

\* the "Handle nouns" loop: it breaks after the first token
replace_nouns(tags, phrases) ==
    IF Len(tags) = 0 THEN <<>>
    ELSE LET found == ScanPhrases(tags[1][1], phrases, 1)
         IN IF found = <<>> THEN <<tags[1][1]>> ELSE found

\* the sentence with the phrase blanked
Blanked(nouns, sentence) ==
    SubFirst(Join(nouns, <<" ">>), Blanks(Len(nouns)), sentence)

\* the try block's test: tags[0][1] == "RB" or len(tokens) < 4,
\* where tags[0] of no tokens raises IndexError, caught with the rest
RejectsLoose(tokens, tags) ==
    Len(tags) = 0 \/ tags[1][2] = "RB" \/ Len(tokens) <= MinTokens
Rejects(tokens, tags) ==
    Len(tags) = 0 \/ tags[1][2] = "RB" \/ Len(tokens) < MinTokens

identify_potential_questions(sentence) ==
    IF Fails("word_tokenize", sentence) \/ Fails("pos_tag", sentence)
    THEN Returned(<<>>)
    ELSE LET tokens == word_tokenize(sentence)
             tags == pos_tag(tokens)
         IN IF Rejects(tokens, tags) THEN Returned(<<>>)
            ELSE IF Fails("parse", sentence) THEN Raised("parse")
            ELSE LET nouns == replace_nouns(tags, noun_phrases(tags))
                     similar == IF Len(nouns) = 1
                                THEN answer_options(nouns[1])
                                ELSE Returned(<<>>)
                 IN IF nouns = <<>> THEN Returned(<<>>)
                    ELSE IF similar.exc # NoError THEN similar
                    ELSE Returned(<<[Answer |-> Join(nouns, <<" ">>),
                                     Key |-> Min({Len(w) : w \in {nouns[k] : k \in 1..Len(nouns)}}),
                                     Similar |-> similar.val,
                                     Question |-> Blanked(nouns, sentence)]>>)

(***************************************************************************)
(* The lexical database and the texts of the model.                        *)
(***************************************************************************)
wRome == <<"R", "o", "m", "e">>
lNewDelhi == <<"N", "e", "w", "_", "D", "e", "l", "h", "i">>

\* a fragment of WordNet: Paris is a national capital, beside Rome and New
\* Delhi; the first sense of city has no hypernym recorded
WordNetSample ==
    [synsets |-> (wParis :> <<"paris.n.01">>) @@ (wCity :> <<"city.n.01">>),
     hypernyms |-> ("paris.n.01" :> <<"national_capital.n.01">>)
                   @@ ("city.n.01" :> <<>>),
     hyponyms |-> ("national_capital.n.01" :>
                       <<"rome.n.01", "paris.n.01", "new_delhi.n.01">>),
     lemmas |-> ("rome.n.01" :> <<wRome>>) @@ ("paris.n.01" :> <<wParis>>)
                @@ ("new_delhi.n.01" :> <<lNewDelhi>>)]

\* the state of an object no method of which is running
Idle ==
    /\ pc = "idle"
    /\ num_questions = 0
    /\ sentences = <<>>
    /\ sent_idx = 0
    /\ question_sets = <<>>
    /\ question_answers = <<>>
    /\ questions = <<>>
    /\ answers = <<>>
    /\ rand_num = 0
    /\ sampled = FALSE
    /\ error = NoError
    /\ prev_sets = <<>>
    /\ recalled = FALSE
    /\ ret = Returned(<<>>)

(***************************************************************************)
(* identify_potential_questions called on its own, on every sentence of up *)
(* to MaxWords words of the vocabulary, single- or double-spaced, with or  *)
(* without its full stop.                                                  *)
(***************************************************************************)
Vocabulary == {wParis, wCity, wThe, wIs, wNow, wNdrangheta, wQuote}
Gaps == {<<" ">>, <<" ", " ">>}
Stops == {<<>>, FullStop}

WordSeqs(n) == UNION {[1..k -> Vocabulary] : k \in 0..n}

InitSentence ==
    /\ Idle
    /\ corpus_file = <<>>
    /\ summary = <<>>
    /\ wordnet = WordNetSample
    /\ faulty = "none"
    /\ poison = <<>>
    /\ \E ws \in WordSeqs(MaxWords), gap \in Gaps, stop \in Stops :
           arg = Join(ws, gap) \o stop

CallIdentify ==
    /\ pc = "idle"
    /\ pc' = "returned"
    /\ ret' = identify_potential_questions(arg)
    /\ UNCHANGED <<corpus_file, summary, wordnet, faulty, poison, num_questions,
                   sentences, sent_idx, question_sets, question_answers,
                   questions, answers, rand_num, sampled, error, prev_sets,
                   recalled, arg>>

NextSentence == CallIdentify

SpecSentence == InitSentence /\ [][NextSentence]_vars

(***************************************************************************)
(* generate_test on a constructed object.  The corpus is up to             *)
(* MaxSentences pieces, each a sample sentence or a blank, a space apart;  *)
(* generate_test is called, and once it has ended, called a second time.   *)
(***************************************************************************)
Sentence(ws, gap) == Join(ws, gap) \o FullStop

SentenceSamples ==
    {Sentence(<<wParis, wIs, wCity>>, <<" ">>),             \* Paris is city.
     Sentence(<<wThe, wCity, wIs, wParis>>, <<" ">>),       \* The city is Paris.
     Sentence(<<wNow, wParis, wIs, wCity>>, <<" ">>),       \* Now Paris is city.
     Sentence(<<wCity, wParis, wIs, wThe>>, <<" ", " ">>),  \* city  Paris  is  The.
     Sentence(<<wParis, wDogs>>, <<" ">>)}                  \* Paris dogs.

CorpusPieces == SentenceSamples \cup {<<" ">>}

Corpora == {Join(ps, <<" ">>) : ps \in UNION {[1..k -> CorpusPieces] : k \in 0..MaxSentences}}

\* no faulty service, or one: a service called once per sentence raises on
\* one sentence of the corpus, any other on every call
Faults(corpus) ==
    {<<"none", <<>>>>}
    \cup {<<svc, <<>>>> : svc \in Services \ SentenceServices}
    \cup (SentenceServices \X {t \in SentenceSamples : IsSubstring(t, corpus)})

Init ==
    /\ Idle
    /\ corpus_file \in Corpora
    /\ summary = corpus_file
    /\ wordnet = WordNetSample
    /\ \E f \in Faults(corpus_file) : faulty = f[1] /\ poison = f[2]
    /\ arg = <<>>

\* generate_test(num_questions) is called
generate_test(n) ==
    /\ pc = "idle"
    /\ pc' = "sent_tokenize"
    /\ num_questions' = n
    /\ UNCHANGED <<corpus_file, summary, wordnet, faulty, poison, sentences,
                   sent_idx, question_sets, question_answers, questions,
                   answers, rand_num, sampled, error, prev_sets, recalled,
                   arg, ret>>

\* get_question_sets: the segmenter's try block
SentTokenize ==
    /\ pc = "sent_tokenize"
    /\ IF Down("sent_tokenize")
       THEN /\ pc' = "filter"
            /\ UNCHANGED <<sentences, sent_idx>>
       ELSE /\ pc' = "for_sent"
            /\ sentences' = sent_tokenize(summary)
            /\ sent_idx' = 1
    /\ UNCHANGED <<corpus_file, summary, wordnet, faulty, poison, num_questions,
                   question_sets, question_answers, questions, answers,
                   rand_num, sampled, error, prev_sets, recalled, arg, ret>>

\* question_sets.append(question_set), when it is not None
Append_question_set(sets, found) == sets \o found

\* get_question_sets: one iteration of the loop over the sentences
ForSent ==
    /\ pc = "for_sent"
    /\ sent_idx <= Len(sentences)
    /\ \E question_set \in {identify_potential_questions(sentences[sent_idx])} :
          IF question_set.exc # NoError
          THEN /\ pc' = "raised"
               /\ error' = question_set.exc
               /\ UNCHANGED <<sent_idx, question_sets>>
          ELSE /\ question_sets' = Append_question_set(question_sets, question_set.val)
               /\ sent_idx' = sent_idx + 1
               /\ UNCHANGED <<pc, error>>
    /\ UNCHANGED <<corpus_file, summary, wordnet, faulty, poison, num_questions,
                   sentences, question_answers, questions, answers, rand_num,
                   sampled, prev_sets, recalled, arg, ret>>

\* get_question_sets returns question_sets
ReturnSets ==
    /\ pc = "for_sent"
    /\ sent_idx > Len(sentences)
    /\ pc' = "filter"
    /\ UNCHANGED <<corpus_file, summary, wordnet, faulty, poison, num_questions,
                   sentences, sent_idx, question_sets, question_answers,
                   questions, answers, rand_num, sampled, error, prev_sets,
                   recalled, arg, ret>>

\* if question_set["Key"] > 3
KeepsFrom3(question_set) == question_set.Key >= MinKey
Keeps(question_set) == question_set.Key > MinKey

\* if len(question_answers) == 0: raise ValueError
NeverNoQuestions(kept) == FALSE
NoQuestions(kept) == Len(kept) = 0

\* generate_test: the records with Key > 3, and the ValueError when there are none
Filter ==
    /\ pc = "filter"
    /\ question_answers' = SelectSeq(question_sets, Keeps)
    /\ IF NoQuestions(question_answers')
       THEN pc' = "raised" /\ error' = "ValueError"
       ELSE pc' = "while" /\ UNCHANGED error
    /\ UNCHANGED <<corpus_file, summary, wordnet, faulty, poison, num_questions,
                   sentences, sent_idx, question_sets, questions, answers,
                   rand_num, sampled, prev_sets, recalled, arg, ret>>

\* while len(questions) < num_questions
LoopsOnEqual(have, want) == have <= want
Loops(have, want) == have < want

\* generate_test: the loop's test, and the return when it fails
WhileTest ==
    /\ pc = "while"
    /\ pc' = IF Loops(Len(questions), num_questions) THEN "body" ELSE "done"
    /\ UNCHANGED <<corpus_file, summary, wordnet, faulty, poison, num_questions,
                   sentences, sent_idx, question_sets, question_answers,
                   questions, answers, rand_num, sampled, error, prev_sets,
                   recalled, arg, ret>>

\* if question_answers[rand_num]["Question"] not in questions
Fresh(question, selected) == \A k \in 1..Len(selected) : selected[k] # question

\* generate_test: a draw whose question is appended
DrawFresh ==
    /\ pc = "body"
    /\ \E r \in 0..(Len(question_answers) - 1) :
           /\ Fresh(question_answers[r + 1].Question, questions)
           /\ rand_num' = r
           /\ questions' = Append(questions, question_answers[r + 1].Question)
           /\ answers' = Append(answers, question_answers[r + 1].Answer)
    /\ sampled' = TRUE
    /\ pc' = "while"
    /\ UNCHANGED <<corpus_file, summary, wordnet, faulty, poison, num_questions,
                   sentences, sent_idx, question_sets, question_answers, error,
                   prev_sets, recalled, arg, ret>>

\* generate_test: a draw whose question was selected before
DrawDuplicate ==
    /\ pc = "body"
    /\ \E r \in 0..(Len(question_answers) - 1) :
           /\ ~Fresh(question_answers[r + 1].Question, questions)
           /\ rand_num' = r
    /\ sampled' = TRUE
    /\ pc' = "while"
    /\ UNCHANGED <<corpus_file, summary, wordnet, faulty, poison, num_questions,
                   sentences, sent_idx, question_sets, question_answers,
                   questions, answers, error, prev_sets, recalled, arg, ret>>

\* whether the call's get_question_sets returned to generate_test
SetsReturned ==
    pc \in {"filter", "while", "body", "done"} \/ (pc = "raised" /\ error = "ValueError")

\* the call has ended, by a return or by an exception; the caller calls again
Again ==
    /\ pc \in {"done", "raised"}
    /\ ~recalled
    /\ recalled' = TRUE
    /\ prev_sets' = IF SetsReturned THEN <<question_sets>> ELSE <<>>
    /\ pc' = "idle"
    /\ num_questions' = 0
    /\ sentences' = <<>>
    /\ sent_idx' = 0
    /\ question_sets' = <<>>
    /\ question_answers' = <<>>
    /\ questions' = <<>>
    /\ answers' = <<>>
    /\ rand_num' = 0
    /\ sampled' = FALSE
    /\ error' = NoError
    /\ UNCHANGED <<corpus_file, summary, wordnet, faulty, poison, arg, ret>>

Next ==
    \/ \E n \in 0..MaxQuestions : generate_test(n)
    \/ SentTokenize
    \/ ForSent
    \/ ReturnSets
    \/ Filter
    \/ WhileTest
    \/ DrawFresh
    \/ DrawDuplicate
    \/ Again

Spec == Init /\ [][Next]_vars

\* The sampling loop runs on: its test and its body are taken when they are
\* the next step.  The draws are uniform over question_answers, so a record
\* that can be appended is drawn sooner or later: strong fairness of DrawFresh.
Draw == DrawFresh \/ DrawDuplicate
FairSpec == Spec /\ WF_vars(WhileTest) /\ WF_vars(Draw) /\ SF_vars(DrawFresh)

(***************************************************************************)
(* answer_options called on its own, on lexical databases whose first      *)
(* hypernym has up to MaxHyponyms hyponyms.                                *)
(***************************************************************************)
lHotDog == <<"h", "o", "t", "_", "d", "o", "g">>
wHotDog == <<"h", "o", "t", " ", "d", "o", "g">>
wBun == <<"b", "u", "n">>

LexWords == {wHotDog, lHotDog, wBun}
LemmaSamples == {lHotDog, wBun}

\* a database in which word has the given senses, its first sense the given
\* hypernyms, and the first hypernym one hyponym per name
LexDB(word, senses, hypers, names) ==
    [synsets |-> (word :> senses),
     hypernyms |-> ("sense.n.01" :> hypers) @@ ("sense.n.02" :> <<"hyper.n.02">>),
     hyponyms |-> ("hyper.n.01" :> [k \in 1..Len(names) |-> k])
                  @@ ("hyper.n.02" :> <<>>),
     lemmas |-> [k \in 1..Len(names) |-> <<names[k], wBun>>]]

InitLex ==
    /\ Idle
    /\ corpus_file = <<>>
    /\ summary = <<>>
    /\ poison = <<>>
    /\ faulty \in {"none", "synsets"}
    /\ arg \in LexWords
    /\ \/ wordnet = LexDB(arg, <<>>, <<>>, <<>>)
       \/ wordnet = LexDB(arg, <<"sense.n.01", "sense.n.02">>, <<>>, <<>>)
       \/ \E names \in UNION {[1..k -> LemmaSamples] : k \in 0..MaxHyponyms} :
              wordnet = LexDB(arg, <<"sense.n.01", "sense.n.02">>,
                              <<"hyper.n.01", "hyper.n.02">>, names)

CallAnswerOptions ==
    /\ pc = "idle"
    /\ pc' = "returned"
    /\ ret' = answer_options(arg)
    /\ UNCHANGED <<corpus_file, summary, wordnet, faulty, poison, num_questions,
                   sentences, sent_idx, question_sets, question_answers,
                   questions, answers, rand_num, sampled, error, prev_sets,
                   recalled, arg>>

NextLex == CallAnswerOptions

SpecLex == InitLex /\ [][NextLex]_vars

(***************************************************************************)
(* The claims.                                                             *)
(***************************************************************************)
Elems(seq) == {seq[k] : k \in 1..Len(seq)}
Viable(sets) == {k \in 1..Len(sets) : sets[k].Key > 3}
Sampling == pc \in {"while", "body", "done"}

\* C1: whenever the filtered set holds a record, generate_test returns
\* num_questions questions, pairwise distinct, each with the Answer of a
\* filtered record of that Question at the same index.
C1_ReturnsTest ==
    [](pc = "while" =>
         <>(/\ pc = "done"
            /\ Len(questions) = num_questions
            /\ Len(answers) = num_questions
            /\ \A i, j \in 1..Len(questions) : i # j => questions[i] # questions[j]
            /\ \A i \in 1..Len(questions) :
                   \E k \in 1..Len(question_answers) :
                       /\ question_answers[k].Question = questions[i]
                       /\ question_answers[k].Answer = answers[i]))

\* C2: when the filtered set holds fewer distinct Question texts than
\* num_questions, the sampling loop stops and an error reaches the caller.
C2_SamplingLoopCapped ==
    []((/\ pc = "body"
        /\ Cardinality({q.Question : q \in Elems(question_answers)}) < num_questions)
         => <>(pc = "raised"))

\* C3: the only exception that reaches the caller of generate_test is the
\* "no viable questions" ValueError; every failure of a service is recovered.
C3_OnlyNoViableQuestions == pc = "raised" => error = "ValueError"

\* C4: every record identify_potential_questions returns has a Question
\* holding a blank marker and a non-empty Answer.
C4_BlankInQuestion ==
    (pc = "returned" /\ ret.val # <<>>) =>
        /\ IsSubstring(Blanks(1), ret.val[1].Question)
        /\ ret.val[1].Answer # <<>>

\* C5 as stated: for any corpus, with every service working,
\* generate_test(0) returns ([], []) and draws no random number.
C5_ZeroQuestionsAnyCorpus ==
    (num_questions = 0 /\ faulty = "none" /\ pc \in {"done", "raised"}) =>
        (pc = "done" /\ questions = <<>> /\ answers = <<>> /\ ~sampled)

\* C5 as amended: when some extracted record has Key > 3, generate_test(0)
\* goes from the filter to its return with ([], []) and no random draw.
C5_ZeroQuestionsViable ==
    (num_questions = 0 /\ (question_answers # <<>> \/ pc = "done")) =>
        (pc \in {"while", "done"} /\ questions = <<>> /\ answers = <<>> /\ ~sampled)

C5_Witness == num_questions = 0 /\ pc = "done" /\ question_answers # <<>>

\* C6: when no extracted record has Key > 3, generate_test raises ValueError
\* before any random draw and returns nothing; an empty or all-whitespace
\* corpus yields no record, hence this error.
C6_NoViableQuestions ==
    /\ Sampling => Viable(question_sets) # {}
    /\ (pc = "raised" /\ error = "ValueError") =>
           /\ Viable(question_sets) = {}
           /\ ~sampled
           /\ questions = <<>>
           /\ answers = <<>>
    /\ ((\A k \in 1..Len(summary) : summary[k] = " ") /\ SetsReturned) =>
           /\ question_sets = <<>>
           /\ pc \in {"filter", "raised"}

C6_Witness ==
    pc = "raised" /\ error = "ValueError" /\ Len(question_sets) >= 1 /\ ~recalled

C8_OnlyLongAnswers ==
    Sampling =>
        /\ Len(answers) = Len(questions)
        /\ \A i \in 1..Len(questions) :
               /\ \E k \in 1..Len(question_sets) :
                      /\ question_sets[k].Key > 3
                      /\ question_sets[k].Key =
                             Min({Len(w) : w \in Elems(Split(question_sets[k].Answer))})
                      /\ question_sets[k].Question = questions[i]
                      /\ question_sets[k].Answer = answers[i]
               /\ \A w \in Elems(Split(answers[i])) : Len(w) > 3
               /\ \A k \in 1..Len(question_sets) :
                      question_sets[k].Key <= 3 => question_sets[k].Answer # answers[i]

C8_Witness ==
    /\ pc = "done"
    /\ Len(questions) >= 1
    /\ \E k \in 1..Len(question_sets) : question_sets[k].Answer = wThe

\* C9: only the first tagged token is examined.  Of the candidate phrases
\* before the first one that starts with a quote, the first that contains the
\* first token's word gives its last two words (its one word) to blank; when
\* there is none, the first token's word is blanked.  One or two words are.
C9_FirstTokenOnly ==
    (pc = "returned" /\ ret.val # <<>>) =>
        LET tags == pos_tag(word_tokenize(arg))
            phrases == noun_phrases(tags)
            word == tags[1][1]
            quoted == {k \in 1..Len(phrases) : phrases[k][1] = "'"}
            stop == IF quoted = {} THEN Len(phrases) + 1 ELSE Min(quoted)
            hits == {k \in 1..(stop - 1) : IsSubstring(word, phrases[k])}
            blanked == Split(ret.val[1].Answer)
        IN /\ Len(blanked) \in {1, 2}
           /\ IF hits = {} THEN blanked = <<word>>
              ELSE LET ph == Split(phrases[Min(hits)])
                   IN blanked = IF Len(ph) = 1 THEN ph
                                ELSE <<ph[Len(ph) - 1], ph[Len(ph)]>>

\* a phrase of three words that holds the first token's word inside one of
\* its words only: its last two words are blanked
C9_Witness ==
    /\ pc = "returned"
    /\ ret.val # <<>>
    /\ LET tags == pos_tag(word_tokenize(arg))
           phrases == noun_phrases(tags)
       IN /\ Len(phrases) = 1
          /\ Len(Split(phrases[1])) = 3
          /\ tags[1][1] \notin Elems(Split(phrases[1]))
          /\ Split(ret.val[1].Answer) = LastN(Split(phrases[1]), 2)

\* a sentence is rejected when tokenizing or tagging it fails, it has fewer
\* than 4 tokens, or its first token is tagged as an adverb
Rejected(sentence) ==
    \/ Fails("word_tokenize", sentence)
    \/ Fails("pos_tag", sentence)
    \/ Len(word_tokenize(sentence)) < 4
    \/ TagOf(word_tokenize(sentence)[1]) = "RB"

====
